---- MODULE Spec2Model ----
(***************************************************************************)
(* The main window of the MPK Mini Plus editor (src/ui/main_ui.py) as a    *)
(* state machine: the start-up connect loop, the eight programme tabs, and *)
(* the handlers that fetch from the controller, push to it, copy a tab,    *)
(* and load or save a programme file.                                      *)
(*                                                                         *)
(* core.config.Config, core.midi_interface.AkaiMPKPlus and the widgets of  *)
(* ui.programmes are imported by main_ui.py; their behaviour is taken from *)
(* the written specification (codec of section 4.2, transport of 4.3,      *)
(* fetch of 4.4) and failures are Python exceptions that end the handler   *)
(* that was running.                                                       *)
(***************************************************************************)
EXTENDS Integers, Sequences, FiniteSets, TLC

VARIABLES
    pc,          \* where the UI thread is: construct, loop_test, popup, exited,
                 \* idle (event loop), request / await (inside get_programme),
                 \* push (inside the loop of send_all_programmes)
    midi,        \* self.midi: the current AkaiMPKPlus session
    attempts,    \* number of AkaiMPKPlus() constructions so far
    ret,         \* the last answer of the "Controller not found" popup
    available,   \* the controller's endpoint can be opened (environment)
    progs,       \* self.progs: the values shown by the widgets of each tab
    active,      \* self.programmes.currentIndex()
    file,        \* the bytes of the user's .mpkminiplus file (<<>>: not written)
    savedConf,   \* the configuration the last save_mpkminiplus serialized
    op,          \* the handler that is running or ran last
    p_i,         \* the tab index the handler works on
    slot,        \* the argument of get_programme
    tries,       \* failed send/receive pairs of the running get_programme
    outstanding, \* slots of the dump requests sent and not yet answered or timed out
    calls,       \* arguments of the handler's get_programme calls, or the path loaded
    sent,        \* messages the handler handed to send_midi_message
    outcome,     \* how the handler ended
    ops          \* handlers run so far

vars == <<pc, midi, attempts, ret, available, progs, active, file, savedConf,
          op, p_i, slot, tries, outstanding, calls, sent, outcome, ops>>

(***************************************************************************)
(* Bounds of the model.                                                    *)
(***************************************************************************)
MaxOps == 2
MaxAttempts == 3
MaxChannel == 17

(***************************************************************************)
(* Program constants.                                                      *)
(***************************************************************************)
NumTabs == 8
MaxFetchTries == 3
PayloadLen == 5

Tabs == 0 .. (NumTabs - 1)

SelectableTabs == {0, 1, NumTabs - 1}

CopyTargets == 1 .. NumTabs

(***************************************************************************)
(* Configuration model and codec.                                          *)
(***************************************************************************)
is_valid(c) ==
    /\ c.programme \in 0 .. 8
    /\ c.pad_channel \in 1 .. 16
    /\ c.key_channel \in 1 .. 16
    /\ c.knob_min \in 0 .. 127
    /\ c.knob_max \in 0 .. 127
    /\ c.knob_min <= c.knob_max

serialize(c) ==
    <<c.programme, c.pad_channel, c.key_channel, c.knob_min, c.knob_max>>

MalformedInput == [error |-> "MalformedInput"]

parse_config(bytes) ==
    IF Len(bytes) # PayloadLen
    THEN MalformedInput
    ELSE LET c == [programme |-> bytes[1], pad_channel |-> bytes[2],
                   key_channel |-> bytes[3], knob_min |-> bytes[4],
                   knob_max |-> bytes[5]]
         IN  IF is_valid(c) THEN c ELSE MalformedInput

(***************************************************************************)
(* The widgets of one tab: fill(config) shows the fields, values() reads   *)
(* them back.                                                              *)
(***************************************************************************)
TabValues(c) ==
    [pad_channel |-> c.pad_channel, key_channel |-> c.key_channel,
     knob_min |-> c.knob_min, knob_max |-> c.knob_max]

DefaultValues ==
    [pad_channel |-> 1, key_channel |-> 1, knob_min |-> 0, knob_max |-> 127]

EditSamples ==
    { [pad_channel |-> 16, key_channel |-> 2, knob_min |-> 0, knob_max |-> 127],
      [pad_channel |-> 3, key_channel |-> 16, knob_min |-> 10, knob_max |-> 20] }

get_tab_programme_ZeroBased(shown, p) ==
    [programme |-> p,
     pad_channel |-> shown[p].pad_channel, key_channel |-> shown[p].key_channel,
     knob_min |-> shown[p].knob_min, knob_max |-> shown[p].knob_max]

fill_tab(shown, config, p) == [shown EXCEPT ![p] = TabValues(config)]

get_tab_programme(shown, p) ==
    [programme |-> p + 1,
     pad_channel |-> shown[p].pad_channel, key_channel |-> shown[p].key_channel,
     knob_min |-> shown[p].knob_min, knob_max |-> shown[p].knob_max]

(***************************************************************************)
(* The controller: what it holds in RAM (slot 0) and in programmes 1..8.   *)
(***************************************************************************)
DeviceMemory(s) ==
    serialize([programme |-> s, pad_channel |-> s + 1, key_channel |-> 16 - s,
               knob_min |-> s, knob_max |-> 127 - s])

(***************************************************************************)
(* The session.                                                            *)
(***************************************************************************)
NoSession == [sid |-> 0, connected |-> FALSE]

AkaiMPKPlus(sid, endpoint) == [sid |-> sid, connected |-> endpoint]

Init ==
    /\ pc = "construct"
    /\ midi = NoSession
    /\ attempts = 0
    /\ ret = "none"
    /\ available \in BOOLEAN
    /\ progs = [t \in Tabs |-> DefaultValues]
    /\ active = 0
    /\ file = <<>>
    /\ savedConf = [programme |-> 0] @@ DefaultValues
    /\ op = "none"
    /\ p_i = 0
    /\ slot = 0
    /\ tries = 0
    /\ outstanding = <<>>
    /\ calls = <<>>
    /\ sent = <<>>
    /\ outcome = "none"
    /\ ops = 0

InitWindow ==
    /\ pc = "idle"
    /\ midi = AkaiMPKPlus(1, TRUE)
    /\ attempts = 1
    /\ ret = "none"
    /\ available = TRUE
    /\ progs = [t \in Tabs |-> DefaultValues]
    /\ active = 0
    /\ file = <<>>
    /\ savedConf = [programme |-> 0] @@ DefaultValues
    /\ op = "none"
    /\ p_i = 0
    /\ slot = 0
    /\ tries = 0
    /\ outstanding = <<>>
    /\ calls = <<>>
    /\ sent = <<>>
    /\ outcome = "none"
    /\ ops = 0

uiVars == <<progs, active, file, savedConf, op, p_i, slot, tries, outstanding,
            calls, sent, outcome, ops>>

(***************************************************************************)
(* Start-up: __init__ and show_popup_controller_not_found.                 *)
(***************************************************************************)
Construct ==
    /\ pc = "construct"
    /\ midi' = AkaiMPKPlus(attempts + 1, available)
    /\ attempts' = attempts + 1
    /\ pc' = "loop_test"
    /\ UNCHANGED <<ret, available, uiVars>>

LoopContinues_Never(session) == FALSE

LoopContinues(session) == ~session.connected

LoopTest ==
    /\ pc = "loop_test"
    /\ pc' = IF LoopContinues(midi) THEN "popup" ELSE "idle"
    /\ UNCHANGED <<midi, attempts, ret, available, uiVars>>

PopupClose ==
    /\ pc = "popup"
    /\ ret' = "Close"
    /\ pc' = "exited"
    /\ UNCHANGED <<midi, attempts, available, uiVars>>

PopupRetry ==
    /\ pc = "popup"
    /\ attempts < MaxAttempts
    /\ ret' = "Retry"
    /\ midi' = AkaiMPKPlus(attempts + 1, available)
    /\ attempts' = attempts + 1
    /\ pc' = "loop_test"
    /\ UNCHANGED <<available, uiVars>>

(***************************************************************************)
(* Environment: the endpoint is closed under the session, or comes back.   *)
(***************************************************************************)
EndpointClosed ==
    /\ available
    /\ pc # "exited"
    /\ available' = FALSE
    /\ midi' = [midi EXCEPT !.connected = FALSE]
    /\ UNCHANGED <<pc, attempts, ret, uiVars>>

EndpointBack ==
    /\ ~available
    /\ pc # "exited"
    /\ available' = TRUE
    /\ UNCHANGED <<pc, midi, attempts, ret, uiVars>>

(***************************************************************************)
(* The event loop: the user selects a tab or edits the widgets of the      *)
(* active tab.                                                             *)
(***************************************************************************)
Begin(name) ==
    /\ pc = "idle"
    /\ ops < MaxOps
    /\ ops' = ops + 1
    /\ op' = name

SelectTab ==
    /\ pc = "idle"
    /\ \E t \in SelectableTabs \ {active} : active' = t
    /\ UNCHANGED <<pc, midi, attempts, ret, available, progs, file, savedConf,
                   op, p_i, slot, tries, outstanding, calls, sent, outcome, ops>>

EditTab ==
    /\ pc = "idle"
    /\ \E v \in EditSamples : progs' = [progs EXCEPT ![active] = v]
    /\ UNCHANGED <<pc, midi, attempts, ret, available, active, file, savedConf,
                   op, p_i, slot, tries, outstanding, calls, sent, outcome, ops>>

(***************************************************************************)
(* Fetching: get_all_programmes, get_active_programme, get_ram, and the    *)
(* send/receive pairs of get_programme.                                    *)
(***************************************************************************)
StartFetch(name, tab, s) ==
    /\ Begin(name)
    /\ p_i' = tab
    /\ slot' = s
    /\ tries' = 0
    /\ calls' = <<s>>
    /\ sent' = <<>>
    /\ outcome' = "running"
    /\ pc' = "request"
    /\ UNCHANGED <<midi, attempts, ret, available, progs, active, file,
                   savedConf, outstanding>>

get_all_programmes == StartFetch("get_all_programmes", 0, 1)

get_active_programme == StartFetch("get_active_programme", active, active + 1)

get_ram == StartFetch("get_ram", active, 0)

get_programme_ready_Async == pc \in {"request", "await"}

get_programme_ready == pc = "request"

get_programme_send ==
    /\ get_programme_ready
    /\ IF midi.connected
       THEN /\ outstanding' = Append(outstanding, slot)
            /\ pc' = "await"
            /\ outcome' = outcome
       ELSE /\ outstanding' = outstanding
            /\ pc' = "idle"
            /\ outcome' = "NotConnected"
    /\ UNCHANGED <<midi, attempts, ret, available, progs, active, file,
                   savedConf, op, p_i, slot, tries, calls, sent, ops>>

after_failed_fetch_Fills(shown, p) == [shown EXCEPT ![p] = DefaultValues]

after_failed_fetch(shown, p) == shown

get_programme_reply ==
    /\ pc = "await"
    /\ midi.connected
    /\ outstanding # <<>>
    /\ outstanding' = Tail(outstanding)
    /\ progs' = fill_tab(progs, parse_config(DeviceMemory(Head(outstanding))), p_i)
    /\ tries' = 0
    /\ IF op = "get_all_programmes" /\ p_i + 1 < NumTabs
       THEN /\ p_i' = p_i + 1
            /\ slot' = p_i + 2
            /\ calls' = Append(calls, p_i + 2)
            /\ pc' = "request"
            /\ outcome' = outcome
       ELSE /\ pc' = "idle"
            /\ outcome' = "ok"
            /\ UNCHANGED <<p_i, slot, calls>>
    /\ UNCHANGED <<midi, attempts, ret, available, active, file, savedConf,
                   op, sent, ops>>

get_programme_no_reply ==
    /\ pc = "await"
    /\ outstanding # <<>>
    /\ outstanding' = Tail(outstanding)
    /\ IF tries + 1 < MaxFetchTries
       THEN /\ tries' = tries + 1
            /\ pc' = "request"
            /\ outcome' = outcome
            /\ progs' = progs
       ELSE /\ tries' = 0
            /\ pc' = "idle"
            /\ outcome' = "DeviceUnresponsive"
            /\ progs' = after_failed_fetch(progs, p_i)
    /\ UNCHANGED <<midi, attempts, ret, available, active, file, savedConf,
                   op, p_i, slot, calls, sent, ops>>

(***************************************************************************)
(* copy_to.                                                                *)
(***************************************************************************)
copy_conf(shown, p_from) ==
    LET conf == get_tab_programme(shown, p_from)
    IN  [conf EXCEPT !.pad_channel = conf.pad_channel + 1,
                     !.key_channel = conf.key_channel + 1]

copy_to ==
    /\ Begin("copy_to")
    /\ progs[active].pad_channel < MaxChannel
    /\ progs[active].key_channel < MaxChannel
    /\ \E p_to \in CopyTargets :
         /\ progs' = fill_tab(progs, copy_conf(progs, active), p_to - 1)
         /\ p_i' = p_to - 1
    /\ outcome' = "ok"
    /\ calls' = <<>>
    /\ sent' = <<>>
    /\ UNCHANGED <<pc, midi, attempts, ret, available, active, file, savedConf,
                   slot, tries, outstanding>>

(***************************************************************************)
(* Pushing: send_programme, send_active_programme, send_ram and the loop   *)
(* of send_all_programmes.                                                 *)
(***************************************************************************)
send_midi_message(session, log, bytes) ==
    IF session.connected THEN Append(log, bytes) ELSE log

send_programme(session, log, shown, p) ==
    send_midi_message(session, log, serialize(get_tab_programme(shown, p)))

ram_message(shown, p) == [get_tab_programme(shown, p) EXCEPT !.programme = 0]

SendOutcome == IF midi.connected THEN "ok" ELSE "NotConnected"

send_active_programme ==
    /\ Begin("send_active_programme")
    /\ p_i' = active
    /\ sent' = send_programme(midi, <<>>, progs, active)
    /\ outcome' = SendOutcome
    /\ calls' = <<>>
    /\ UNCHANGED <<pc, midi, attempts, ret, available, progs, active, file,
                   savedConf, slot, tries, outstanding>>

send_ram ==
    /\ Begin("send_ram")
    /\ p_i' = active
    /\ sent' = send_midi_message(midi, <<>>, serialize(ram_message(progs, active)))
    /\ outcome' = SendOutcome
    /\ calls' = <<>>
    /\ UNCHANGED <<pc, midi, attempts, ret, available, progs, active, file,
                   savedConf, slot, tries, outstanding>>

send_all_programmes ==
    /\ Begin("send_all_programmes")
    /\ p_i' = 0
    /\ sent' = <<>>
    /\ calls' = <<>>
    /\ outcome' = "running"
    /\ pc' = "push"
    /\ UNCHANGED <<midi, attempts, ret, available, progs, active, file,
                   savedConf, slot, tries, outstanding>>

send_all_step ==
    /\ pc = "push"
    /\ sent' = send_programme(midi, sent, progs, p_i)
    /\ IF ~midi.connected
       THEN /\ pc' = "idle"
            /\ outcome' = "NotConnected"
            /\ p_i' = p_i
       ELSE IF p_i + 1 < NumTabs
            THEN /\ pc' = "push"
                 /\ outcome' = outcome
                 /\ p_i' = p_i + 1
            ELSE /\ pc' = "idle"
                 /\ outcome' = "ok"
                 /\ p_i' = p_i
    /\ UNCHANGED <<midi, attempts, ret, available, progs, active, file,
                   savedConf, op, slot, tries, outstanding, calls, ops>>

(***************************************************************************)
(* Files: load_mpkminiplus and save_mpkminiplus.                           *)
(***************************************************************************)
Paths == {"user", "short", "long", "channel17", "knobs", "other"}

FileBytes(path) ==
    CASE path = "user" -> file
      [] path = "short" -> <<1, 1, 1, 0>>
      [] path = "long" -> <<1, 1, 1, 0, 127, 0>>
      [] path = "channel17" -> <<1, 17, 1, 0, 127>>
      [] path = "knobs" -> <<1, 1, 1, 100, 5>>
      [] path = "other" -> <<3, 5, 6, 1, 2>>

loaded_tabs_Unchecked(shown, bytes, p) ==
    IF Len(bytes) < PayloadLen
    THEN shown
    ELSE [shown EXCEPT ![p] = [pad_channel |-> bytes[2], key_channel |-> bytes[3],
                               knob_min |-> bytes[4], knob_max |-> bytes[5]]]

loaded_tabs(shown, bytes, p) ==
    LET config == parse_config(bytes)
    IN  IF config = MalformedInput THEN shown ELSE fill_tab(shown, config, p)

load_mpkminiplus ==
    /\ Begin("load_mpkminiplus")
    /\ \E path \in Paths :
         /\ FileBytes(path) # <<>>
         /\ progs' = loaded_tabs(progs, FileBytes(path), active)
         /\ outcome' = IF parse_config(FileBytes(path)) = MalformedInput
                       THEN "MalformedInput" ELSE "ok"
         /\ calls' = <<path>>
    /\ p_i' = active
    /\ sent' = <<>>
    /\ UNCHANGED <<pc, midi, attempts, ret, available, active, file, savedConf,
                   slot, tries, outstanding>>

written_bytes_Trailer(bytes) == Append(bytes, 0)

written_bytes(bytes) ==
    LET bad == {i \in 1 .. Len(bytes) : bytes[i] \notin 0 .. 255}
    IN  IF bad = {} THEN bytes
        ELSE SubSeq(bytes, 1, (CHOOSE i \in bad : \A j \in bad : i <= j) - 1)

save_mpkminiplus ==
    /\ Begin("save_mpkminiplus")
    /\ savedConf' = get_tab_programme(progs, active)
    /\ file' = written_bytes(serialize(get_tab_programme(progs, active)))
    /\ p_i' = active
    /\ outcome' = "ok"
    /\ calls' = <<>>
    /\ sent' = <<>>
    /\ UNCHANGED <<pc, midi, attempts, ret, available, progs, active, slot,
                   tries, outstanding>>

NextConnect ==
    \/ Construct
    \/ LoopTest
    \/ PopupClose
    \/ PopupRetry
    \/ EndpointClosed
    \/ EndpointBack
    \/ SelectTab
    \/ send_active_programme
    \/ send_ram

NextDevice ==
    \/ EndpointClosed
    \/ EndpointBack
    \/ SelectTab
    \/ get_all_programmes
    \/ get_active_programme
    \/ get_ram
    \/ get_programme_send
    \/ get_programme_reply
    \/ get_programme_no_reply
    \/ copy_to
    \/ send_active_programme
    \/ send_ram
    \/ send_all_programmes
    \/ send_all_step

NextTabs ==
    \/ SelectTab
    \/ EditTab
    \/ copy_to
    \/ send_active_programme
    \/ send_ram
    \/ send_all_programmes
    \/ send_all_step
    \/ load_mpkminiplus
    \/ save_mpkminiplus

SpecConnect == Init /\ [][NextConnect]_vars

SpecDevice == InitWindow /\ [][NextDevice]_vars

SpecTabs == InitWindow /\ [][NextTabs]_vars

(***************************************************************************)
(* receive is called with a timeout, so a send/receive pair that has       *)
(* started always ends.                                                    *)
(***************************************************************************)
SpecDeviceFair ==
    /\ SpecDevice
    /\ WF_vars(get_programme_send)
    /\ WF_vars(get_programme_reply \/ get_programme_no_reply)

(***************************************************************************)
(* Properties.                                                             *)
(***************************************************************************)
FetchOps == {"get_all_programmes", "get_active_programme", "get_ram"}

SendOps == {"send_all_programmes", "send_active_programme", "send_ram"}

StartUp == {"construct", "loop_test", "popup"}

SentConfig(m) ==
    [programme |-> m[1], pad_channel |-> m[2], key_channel |-> m[3],
     knob_min |-> m[4], knob_max |-> m[5]]

Rejected(bytes) ==
    \/ Len(bytes) # 5
    \/ bytes[1] \notin 0 .. 8
    \/ bytes[2] \notin 1 .. 16
    \/ bytes[3] \notin 1 .. 16
    \/ bytes[4] \notin 0 .. 127
    \/ bytes[5] \notin 0 .. 127
    \/ bytes[4] > bytes[5]

\* C1: in the start-up loop every Retry makes exactly one new AkaiMPKPlus
\* session that replaces the old one, no session is made without a choice of
\* the user (apart from the one __init__ makes), the loop is left only with a
\* connected session or by Close, which ends the process.
C1_ConnectLoop ==
    [][ /\ (pc = "popup" /\ pc' = "loop_test")
            => (ret' = "Retry" /\ attempts' = attempts + 1
                /\ midi'.sid = attempts' /\ midi'.sid # midi.sid)
        /\ (attempts' # attempts \/ midi'.sid # midi.sid)
            => (/\ attempts' = attempts + 1
                /\ \/ pc = "construct"
                   \/ (pc = "popup" /\ ret' = "Retry" /\ pc' = "loop_test"))
        /\ (pc \in StartUp /\ pc' \notin StartUp)
            => \/ (pc = "loop_test" /\ pc' = "idle" /\ midi.connected /\ midi' = midi)
               \/ (pc = "popup" /\ pc' = "exited" /\ ret' = "Close"
                   /\ attempts' = attempts)
        /\ (pc = "exited") => (pc' = "exited")
      ]_vars

C1_Witness ==
    /\ pc = "idle"
    /\ ops = 0
    /\ ret = "Retry"
    /\ attempts = 3
    /\ midi = [sid |-> 3, connected |-> TRUE]

\* C2: the file save_mpkminiplus writes is serialize(c) byte for byte, and
\* loading it shows c's values in the active tab: every field of c except the
\* slot, which the tab that receives it supplies.
C2_FileRoundTrip ==
    /\ [](file # <<>> => (file = serialize(savedConf) /\ Len(file) = PayloadLen))
    /\ [][ (op' = "load_mpkminiplus" /\ ops' = ops + 1 /\ calls' = <<"user">>
            /\ is_valid(savedConf))
           => (/\ outcome' = "ok"
               /\ get_tab_programme(progs', active)
                    = [savedConf EXCEPT !.programme = active + 1]
               /\ \A t \in Tabs \ {active} : progs'[t] = progs[t])
      ]_vars

C2_Witness ==
    /\ op = "load_mpkminiplus"
    /\ calls = <<"user">>
    /\ outcome = "ok"
    /\ savedConf.pad_channel = 16
    /\ savedConf.programme = 1
    /\ active = 7
    /\ progs[7] = TabValues(savedConf)
    /\ progs[0] # progs[7]

\* C3: every message handed to send_midi_message is the encoding of a
\* configuration that passes is_valid; an invalid one sends nothing.
C3_ValidatedBeforeSend ==
    \A i \in 1 .. Len(sent) : is_valid(SentConfig(sent[i]))

\* C4: a load whose bytes decode rejects (wrong length, a field outside its
\* domain) leaves every tab as it was; a tab is filled only after decode
\* accepted the whole file.
C4_FailedLoadKeepsTabs ==
    [][ (op' = "load_mpkminiplus" /\ ops' = ops + 1)
        => (/\ Rejected(FileBytes(calls'[1]))
                => (progs' = progs /\ outcome' = "MalformedInput")
            /\ progs' # progs => ~Rejected(FileBytes(calls'[1])))
      ]_vars

C4_Witness ==
    /\ op = "load_mpkminiplus"
    /\ outcome = "MalformedInput"
    /\ calls = <<"channel17">>
    /\ progs[active].pad_channel = 16
    /\ active = 1

\* C5: pad_channel and key_channel are in 1..16 in every tab and in every
\* message sent, also after copy_to from a tab that shows channel 16.
C5_ChannelsInRange ==
    /\ \A t \in Tabs : /\ progs[t].pad_channel \in 1 .. 16
                       /\ progs[t].key_channel \in 1 .. 16
    /\ \A i \in 1 .. Len(sent) : /\ sent[i][2] \in 1 .. 16
                                 /\ sent[i][3] \in 1 .. 16

C8_FetchBounded ==
    /\ [](tries < MaxFetchTries /\ tries + Len(outstanding) <= 3)
    /\ [][ (pc = "await" /\ outcome' = "DeviceUnresponsive")
           => (tries = 2 /\ midi' = midi /\ progs' = progs /\ pc' = "idle") ]_vars
    /\ [][ (pc = "await" /\ pc' # "await")
           => \/ (progs' = progs /\ tries' = tries + 1 /\ pc' = "request")
              \/ (progs' = progs /\ outcome' = "DeviceUnresponsive")
              \/ (/\ midi.connected
                  /\ ~Rejected(DeviceMemory(slot))
                  /\ progs' = fill_tab(progs, SentConfig(DeviceMemory(slot)), p_i)
                  /\ outcome' # "DeviceUnresponsive") ]_vars
    /\ [][ (pc \in {"request", "await"} /\ midi' # midi)
           => (available /\ ~available') ]_vars
    /\ (pc \in {"request", "await"}) ~> (pc = "idle")

C8_Witness ==
    /\ op = "get_all_programmes"
    /\ outcome = "DeviceUnresponsive"
    /\ pc = "idle"
    /\ p_i = 2
    /\ progs[1] = TabValues(SentConfig(DeviceMemory(2)))
    /\ progs[2] = DefaultValues
    /\ midi.connected

\* C9: at most one request is outstanding: a request is sent only when the
\* previous one has returned, and the reply awaited is the one for the
\* request sent last.
C9_OneOutstanding ==
    /\ Len(outstanding) <= 1
    /\ (pc \in {"idle", "push", "request"}) => outstanding = <<>>
    /\ (pc = "await") => (calls # <<>> /\ outstanding = <<calls[Len(calls)]>>)

C9_Witness ==
    /\ pc = "await"
    /\ op = "get_all_programmes"
    /\ p_i = 3
    /\ outstanding = <<4>>
    /\ tries = 1

\* C10: get_all_programmes asks for slots 1..8 in order, once each, and fills
\* tab i from slot i+1; get_active_programme (slot active+1) and get_ram
\* (slot 0) fill the active tab only; copy_to(p_to) fills only tab p_to-1 and
\* leaves what the source tab shows unchanged.
C10_FrameEffects ==
    /\ [](op = "get_all_programmes"
            => (/\ \A i \in 1 .. Len(calls) : calls[i] = i
                /\ (outcome = "ok" => Len(calls) = 8)))
    /\ [][ (pc = "await" /\ progs' # progs)
           => (/\ \A t \in Tabs \ {p_i} : progs'[t] = progs[t]
               /\ progs'[p_i] = TabValues(SentConfig(DeviceMemory(slot)))
               /\ op = "get_all_programmes" => slot = p_i + 1
               /\ op = "get_active_programme" => (p_i = active /\ slot = active + 1)
               /\ op = "get_ram" => (p_i = active /\ slot = 0))
      ]_vars
    /\ [][ (op' = "copy_to" /\ ops' = ops + 1)
           => (/\ \A t \in Tabs \ {p_i'} : progs'[t] = progs[t]
               /\ progs'[active] = progs[active])
      ]_vars
====
